---- MODULE Spec2Model ----
(***************************************************************************)
(* TaskMonitor (task_monitor.py): the ROS node that tracks the "Making Tea" *)
(* task.  The executor thread runs listener_callback for one activity       *)
(* message at a time; each timed step gets a task_timer_thread.  Threads    *)
(* interleave between attribute accesses; the only lock is _timer_lock,     *)
(* which is held around single accesses of _timer_active, so each locked    *)
(* block is one step here.                                                  *)
(***************************************************************************)
EXTENDS Integers, Sequences, FiniteSets, TLC

\* ------------------------------------------------------------------ bounds
MaxVecLen == 2
MaxWorkers == 2

\* ------------------------------------------------- Task.__init__ (15-52)
None == "None"

TimerLength == 20

Steps == << "open_bottle_and_pour_water_into_cup",
            "place_tea_bag_into_cup",
            "steep_for_20_seconds",
            "enjoy" >>

Transitions == << [trigger |-> "open_bottle",
                   source  |-> "open_bottle_and_pour_water_into_cup",
                   dest    |-> "place_tea_bag_into_cup"],
                  [trigger |-> "make_tea",
                   source  |-> "place_tea_bag_into_cup",
                   dest    |-> "steep_for_20_seconds"] >>

InitialState == "open_bottle_and_pour_water_into_cup"

TimedState == "steep_for_20_seconds"

StepNames == {Steps[k] : k \in 1..Len(Steps)}

\* An index one short of the position of s
StateIndexOffByOne(s) == (CHOOSE k \in 1..Len(Steps) : Steps[k] = s) - 1

\* list(self._task.machine.states.keys()).index(s)
StateIndex(s) == CHOOSE k \in 1..Len(Steps) : Steps[k] = s

\* self._activity_action_dict (100-103): activity label -> trigger
_activity_action_dict == [a \in {"opening bottle", "making tea"} |->
                            IF a = "opening bottle" THEN "open_bottle" ELSE "make_tea"]

\* str.replace('_', ' ') on the step names (line 200)
Humanize(s) ==
    CASE s = "open_bottle_and_pour_water_into_cup" -> "open bottle and pour water into cup"
      [] s = "place_tea_bag_into_cup" -> "place tea bag into cup"
      [] s = "steep_for_20_seconds" -> "steep for 20 seconds"
      [] s = "enjoy" -> "enjoy"

\* ------------------------------------------------------------------ inputs
Labels == {"opening bottle", "making tea", "unknown_label", "walking"}

RECURSIVE SeqsUpTo(_)
SeqsUpTo(n) ==
    IF n = 0 THEN {<< >>}
    ELSE LET shorter == SeqsUpTo(n - 1)
         IN  shorter \cup {Append(v, a) : v \in {u \in shorter : Len(u) = n - 1}, a \in Labels}

LabelVecs == SeqsUpTo(MaxVecLen)

\* lines 122-128: the first label of label_vec that is a key of the dict
RECURSIVE FirstMatch(_)
FirstMatch(label_vec) ==
    IF label_vec = << >> THEN None
    ELSE IF Head(label_vec) \in DOMAIN _activity_action_dict THEN Head(label_vec)
    ELSE FirstMatch(Tail(label_vec))

\* A candidate other than label_vec[0]
LastCandidate(label_vec) == label_vec[Len(label_vec)]

\* line 132: activity_msg.label_vec[0]
FirstCandidate(label_vec) == label_vec[1]

\* ------------------------------------------------------------------ threads
Listener == 0
Workers == 1..MaxWorkers
Threads == {Listener} \cup Workers

VARIABLES
    task_state,         \* self._task.state (the transitions Machine's state)
    timer_length,       \* machine.states[s].timer_length, for the states that have it
    _current_step, _previous_step, _current_activity, _next_activity,
    _timer_active,
    spinning,           \* rclpy.spin is still delivering messages
    pc,                 \* per thread: the line it is about to execute
    ret,                \* per thread: where publish_task_state_message returns to
    message,            \* per thread: the TaskUpdate under construction
    loc,                \* per thread: its local variables
    published,          \* the message last handed to self._publisher.publish, who sent it,
                        \* and the next_activity of the message before it
    \* history variables
    stale,              \* threads whose finished message the session has moved on from
    newer,              \* per thread: the stale threads when it began reading its message
    overtaken,          \* threads with a finished message that a newer message got out before
    cb,                 \* facts about the current / last listener_callback call
    all_unmatched,      \* every delivered label_vec was non-empty and matched nothing
    ticks,              \* time_remaining values of the messages published at line 238
    expiries            \* number of times line 251 ran

vars == << task_state, timer_length, _current_step, _previous_step, _current_activity,
           _next_activity, _timer_active, spinning, pc, ret, message, loc, published,
           stale, newer, overtaken, cb, all_unmatched, ticks, expiries >>

task_vars == << task_state, timer_length >>
session_vars == << _current_step, _previous_step, _current_activity, _next_activity >>

\* ------------------------------------------------------------- TaskUpdate()
EmptyMessage == [current_step |-> "", previous_step |-> "", current_activity |-> "",
                 next_activity |-> "", time_remaining_until_next_task |-> 0]

NoLocals == [current_activity |-> None, t |-> 0, state |-> None,
             loops |-> 0, i |-> 0, next_state |-> None]

\* What an atomic publish_task_state_message would put in the message now
TimeRemaining ==
    IF task_state \in DOMAIN timer_length THEN timer_length[task_state] ELSE -1

Projection ==
    [current_step |-> Humanize(_current_step),
     previous_step |-> IF _previous_step = None THEN "N/A" ELSE _previous_step,
     current_activity |-> IF _current_activity = None THEN "N/A" ELSE _current_activity,
     next_activity |-> _next_activity,
     time_remaining_until_next_task |-> TimeRemaining]

PublishPCs == {"p200", "p202", "p207", "p212", "p217", "p220", "p221", "p224"}

InPublish(p) == p \in PublishPCs

\* History bookkeeping appended to every step.  A thread at p224 has read all of
\* its message; it is stale once the session has changed since, and overtaken
\* once a message whose reads all came after that change has been published.
Track ==
    /\ stale' = {th \in Threads : /\ pc[th] = "p224" /\ pc'[th] = "p224"
                                  /\ (th \in stale \/ Projection' # Projection)}
    /\ newer' = [th \in Threads |->
                  IF pc[th] = "p200" /\ pc'[th] = "p202" THEN stale \ {th}
                  ELSE IF InPublish(pc[th]) /\ InPublish(pc'[th])
                       THEN {a \in newer[th] : pc'[a] = "p224"}
                       ELSE {}]
    /\ overtaken' = {a \in overtaken \cup UNION {newer[th] : th \in {b \in Threads :
                                                   pc[b] = "p224" /\ pc'[b] # "p224"}} :
                       pc[a] = "p224" /\ pc'[a] = "p224"}

\* ---------------------------------------------------- TaskMonitor.__init__
\* State after construction: line 106 has published the first message.
Init ==
    /\ task_state = InitialState
    /\ timer_length = [s \in {TimedState} |-> TimerLength]
    /\ _current_step = InitialState
    /\ _previous_step = None
    /\ _current_activity = None
    /\ _next_activity = "open_bottle"
    /\ _timer_active = FALSE
    /\ spinning = TRUE
    /\ pc = [th \in Threads |-> IF th = Listener THEN "idle" ELSE "unborn"]
    /\ ret = [th \in Threads |-> "idle"]
    /\ message = [th \in Threads |-> EmptyMessage]
    /\ loc = [th \in Threads |-> NoLocals]
    /\ published = [msg |-> [current_step |-> Humanize(InitialState), previous_step |-> "N/A",
                             current_activity |-> "N/A", next_activity |-> "open_bottle",
                             time_remaining_until_next_task |-> -1],
                    by |-> Listener, from |-> "init", in_order |-> TRUE,
                    prev_next |-> None]
    /\ stale = {}
    /\ newer = [th \in Threads |-> {}]
    /\ overtaken = {}
    /\ cb = [timer_at_entry |-> FALSE, step_at_entry |-> InitialState, prev_at_entry |-> None,
             first |-> None, pubs |-> 0, outcome |-> "none",
             started |-> FALSE]
    /\ all_unmatched = TRUE
    /\ ticks = << >>
    /\ expiries = 0

\* ------------------------------------------ publish_task_state_message (170-224)
\* Lines 176-198 build the constant part of the message (name, description,
\* items, step list) from the Task's constants and touch nothing that changes.
CallPublish(th, return_to) ==
    /\ pc' = [pc EXCEPT ![th] = "p200"]
    /\ ret' = [ret EXCEPT ![th] = return_to]
    /\ message' = [message EXCEPT ![th] = EmptyMessage]

\* line 200
P200(th) ==
    /\ pc[th] = "p200"
    /\ message' = [message EXCEPT ![th].current_step = Humanize(_current_step)]
    /\ pc' = [pc EXCEPT ![th] = "p202"]
    /\ UNCHANGED << task_vars, session_vars, _timer_active, spinning, ret, loc, published,
                    cb, all_unmatched, ticks, expiries >>
    /\ Track

\* lines 202-205
P202(th) ==
    /\ pc[th] = "p202"
    /\ message' = [message EXCEPT ![th].previous_step =
                      IF _previous_step = None THEN "N/A" ELSE _previous_step]
    /\ pc' = [pc EXCEPT ![th] = "p207"]
    /\ UNCHANGED << task_vars, session_vars, _timer_active, spinning, ret, loc, published,
                    cb, all_unmatched, ticks, expiries >>
    /\ Track

\* lines 207-210
P207(th) ==
    /\ pc[th] = "p207"
    /\ message' = [message EXCEPT ![th].current_activity =
                      IF _current_activity = None THEN "N/A" ELSE _current_activity]
    /\ pc' = [pc EXCEPT ![th] = "p212"]
    /\ loc' = [loc EXCEPT ![th].t = 1]
    /\ UNCHANGED << task_vars, session_vars, _timer_active, spinning, ret, published,
                    cb, all_unmatched, ticks, expiries >>
    /\ Track

\* A scan that forgets the last trigger when a transition does not match
ResetNextActivity(old) == None

\* lines 212-215: an iteration whose transition does not match leaves
\* self._next_activity as it is
KeepNextActivity(old) == old

\* lines 212-215: one iteration of the loop over self._task.transitions; each
\* iteration reads self._task.state again
P212(th) ==
    /\ pc[th] = "p212"
    /\ LET t == Transitions[loc[th].t]
       IN  IF t.source = task_state
           THEN /\ _next_activity' = t.trigger
                /\ pc' = [pc EXCEPT ![th] = "p217"]
                /\ loc' = loc
           ELSE /\ _next_activity' = KeepNextActivity(_next_activity)
                /\ IF loc[th].t < Len(Transitions)
                   THEN /\ loc' = [loc EXCEPT ![th].t = @ + 1]
                        /\ pc' = pc
                   ELSE /\ loc' = loc
                        /\ pc' = [pc EXCEPT ![th] = "p217"]
    /\ UNCHANGED << task_vars, _current_step, _previous_step, _current_activity,
                    _timer_active, spinning, ret, message, published,
                    cb, all_unmatched, ticks, expiries >>
    /\ Track

\* line 217
P217(th) ==
    /\ pc[th] = "p217"
    /\ message' = [message EXCEPT ![th].next_activity = _next_activity]
    /\ pc' = [pc EXCEPT ![th] = "p220"]
    /\ UNCHANGED << task_vars, session_vars, _timer_active, spinning, ret, loc, published,
                    cb, all_unmatched, ticks, expiries >>
    /\ Track

\* line 220, first half: self._task.machine.states[self._task.state]
P220(th) ==
    /\ pc[th] = "p220"
    /\ loc' = [loc EXCEPT ![th].state = task_state]
    /\ pc' = [pc EXCEPT ![th] = "p221"]
    /\ UNCHANGED << task_vars, session_vars, _timer_active, spinning, ret, message, published,
                    cb, all_unmatched, ticks, expiries >>
    /\ Track

\* lines 220-222, second half: int(<state>.timer_length), -1 on AttributeError.
\* timer_length only holds whole numbers, so int() leaves the value as it is.
P221(th) ==
    /\ pc[th] = "p221"
    /\ message' = [message EXCEPT ![th].time_remaining_until_next_task =
                      IF loc[th].state \in DOMAIN timer_length
                      THEN timer_length[loc[th].state] ELSE -1]
    /\ pc' = [pc EXCEPT ![th] = "p224"]
    /\ loc' = [loc EXCEPT ![th].state = None, ![th].t = 0]
    /\ UNCHANGED << task_vars, session_vars, _timer_active, spinning, ret, published,
                    cb, all_unmatched, ticks, expiries >>
    /\ Track

\* line 224, and the return to the caller
P224(th) ==
    /\ pc[th] = "p224"
    /\ published' = [msg |-> message[th], by |-> th, from |-> ret[th],
                     in_order |-> th \notin overtaken,
                     prev_next |-> published.msg.next_activity]
    /\ pc' = [pc EXCEPT ![th] = ret[th]]
    /\ ret' = [ret EXCEPT ![th] = "idle"]
    /\ message' = [message EXCEPT ![th] = EmptyMessage]
    /\ cb' = IF th = Listener THEN [cb EXCEPT !.pubs = @ + 1] ELSE cb
    /\ ticks' = IF ret[th] = "t239"
                THEN Append(ticks, message[th].time_remaining_until_next_task)
                ELSE ticks
    /\ UNCHANGED << task_vars, session_vars, _timer_active, spinning, loc,
                    all_unmatched, expiries >>
    /\ Track

\* -------------------------------------------------- listener_callback (108-168)
NewCall(label_vec) ==
    [timer_at_entry |-> _timer_active, step_at_entry |-> _current_step,
     prev_at_entry |-> _previous_step,
     first |-> IF label_vec # << >> /\ FirstMatch(label_vec) = None THEN Head(label_vec) ELSE None,
     pubs |-> 0, outcome |-> "none", started |-> FALSE]

CanReceive ==
    /\ spinning
    /\ pc[Listener] = "idle"

\* lines 122-132 with an empty label_vec: label_vec[0] raises IndexError, which
\* leaves the callback and ends rclpy.spin; running timer threads carry on.
ReceiveEmpty ==
    /\ CanReceive
    /\ spinning' = FALSE
    /\ cb' = [NewCall(<< >>) EXCEPT !.outcome = "IndexError"]
    /\ all_unmatched' = FALSE
    /\ UNCHANGED << task_vars, session_vars, _timer_active, pc, ret, message, loc, published,
                    ticks, expiries >>
    /\ Track

\* lines 122-133: no label is a key of _activity_action_dict
ReceiveUnmatched(label_vec) ==
    /\ CanReceive
    /\ label_vec # << >>
    /\ FirstMatch(label_vec) = None
    /\ _current_activity' = FirstCandidate(label_vec)
    /\ CallPublish(Listener, "idle")
    /\ cb' = [NewCall(label_vec) EXCEPT !.outcome = "unmatched"]
    /\ UNCHANGED << task_vars, _current_step, _previous_step, _next_activity, _timer_active,
                    spinning, loc, published, all_unmatched, ticks, expiries >>
    /\ Track

\* lines 122-136: some label is a key of _activity_action_dict
ReceiveMatched(label_vec) ==
    /\ CanReceive
    /\ FirstMatch(label_vec) # None
    /\ _current_activity' = FirstMatch(label_vec)
    /\ loc' = [loc EXCEPT ![Listener].current_activity = FirstMatch(label_vec)]
    /\ pc' = [pc EXCEPT ![Listener] = "l141"]
    /\ cb' = NewCall(label_vec)
    /\ all_unmatched' = FALSE
    /\ UNCHANGED << task_vars, _current_step, _previous_step, _next_activity, _timer_active,
                    spinning, ret, message, published, ticks, expiries >>
    /\ Track

\* lines 140-142
L141 ==
    /\ pc[Listener] = "l141"
    /\ IF _timer_active
       THEN /\ pc' = [pc EXCEPT ![Listener] = "idle"]
            /\ loc' = [loc EXCEPT ![Listener] = NoLocals]
            /\ cb' = [cb EXCEPT !.outcome = "timer_active"]
       ELSE /\ pc' = [pc EXCEPT ![Listener] = "l146"]
            /\ loc' = loc
            /\ cb' = cb
    /\ UNCHANGED << task_vars, session_vars, _timer_active, spinning, ret, message, published,
                    all_unmatched, ticks, expiries >>
    /\ Track

\* A Machine that takes a trigger's transition whatever state it is in
EnabledFromAnywhere(trigger, s) ==
    {k \in 1..Len(Transitions) : Transitions[k].trigger = trigger}

\* The transitions of the Machine that `trigger` can take from state s
Enabled(trigger, s) ==
    {k \in 1..Len(Transitions) : Transitions[k].trigger = trigger /\ Transitions[k].source = s}

\* line 146: self._activity_action_dict[current_activity](); MachineError when the
\* trigger has no transition from the Machine's state (lines 153-154)
L146 ==
    /\ pc[Listener] = "l146"
    /\ LET en == Enabled(_activity_action_dict[loc[Listener].current_activity], task_state)
       IN  IF en # {}
           THEN /\ task_state' = Transitions[CHOOSE k \in en : \A j \in en : k <= j].dest
                /\ pc' = [pc EXCEPT ![Listener] = "l150"]
                /\ cb' = [cb EXCEPT !.outcome = "advanced"]
                /\ UNCHANGED << ret, message >>
           ELSE /\ task_state' = task_state
                /\ CallPublish(Listener, "l160")
                /\ cb' = [cb EXCEPT !.outcome = "MachineError"]
    /\ UNCHANGED << timer_length, session_vars, _timer_active, spinning, loc, published,
                    all_unmatched, ticks, expiries >>
    /\ Track

\* line 150
L150 ==
    /\ pc[Listener] = "l150"
    /\ _previous_step' = _current_step
    /\ pc' = [pc EXCEPT ![Listener] = "l151"]
    /\ UNCHANGED << task_vars, _current_step, _current_activity, _next_activity,
                    _timer_active, spinning, ret, message, loc, published,
                    cb, all_unmatched, ticks, expiries >>
    /\ Track

\* lines 151 and 156
L151 ==
    /\ pc[Listener] = "l151"
    /\ _current_step' = task_state
    /\ CallPublish(Listener, "l160")
    /\ UNCHANGED << task_vars, _previous_step, _current_activity, _next_activity,
                    _timer_active, spinning, loc, published,
                    cb, all_unmatched, ticks, expiries >>
    /\ Track

\* The comparison of line 160 the wrong way round
NeedsTimerWrongSign(s) == s \in DOMAIN timer_length /\ timer_length[s] < 0

\* line 160: AttributeError (lines 166-168) when the state has no timer_length
NeedsTimer(s) == s \in DOMAIN timer_length /\ timer_length[s] > 0

L160 ==
    /\ pc[Listener] = "l160"
    /\ IF NeedsTimer(task_state)
       THEN /\ pc' = [pc EXCEPT ![Listener] = "l163"]
            /\ loc' = loc
       ELSE /\ pc' = [pc EXCEPT ![Listener] = "idle"]
            /\ loc' = [loc EXCEPT ![Listener] = NoLocals]
    /\ UNCHANGED << task_vars, session_vars, _timer_active, spinning, ret, message, published,
                    cb, all_unmatched, ticks, expiries >>
    /\ Track

\* lines 162-165, under _timer_lock: set the flag and start a new thread
L163 ==
    /\ pc[Listener] = "l163"
    /\ \E w \in Workers :
          /\ pc[w] = "unborn"
          /\ \A v \in Workers : pc[v] = "unborn" => w <= v
          /\ pc' = [pc EXCEPT ![Listener] = "idle", ![w] = "t234"]
    /\ _timer_active' = TRUE
    /\ loc' = [loc EXCEPT ![Listener] = NoLocals]
    /\ cb' = [cb EXCEPT !.started = TRUE]
    /\ UNCHANGED << task_vars, session_vars, spinning, ret, message, published,
                    all_unmatched, ticks, expiries >>
    /\ Track

\* ---------------------------------------------------- task_timer_thread (227-257)
Alive(w) == pc[w] \notin {"unborn", "done", "dead"}

\* Reading <state>.timer_length of a state without the attribute raises
\* AttributeError, an index past the last state raises IndexError: either ends
\* the thread.
Die(w) ==
    /\ pc' = [pc EXCEPT ![w] = "dead"]
    /\ loc' = [loc EXCEPT ![w] = NoLocals]

\* lines 234-238: loops = <state>.timer_length, then the head of the for loop
T234(w) ==
    /\ pc[w] = "t234"
    /\ IF task_state \notin DOMAIN timer_length
       THEN Die(w) /\ UNCHANGED << ret, message >>
       ELSE /\ loc' = [loc EXCEPT ![w].loops = timer_length[task_state], ![w].i = 0]
            /\ IF timer_length[task_state] > 0
               THEN CallPublish(w, "t239")
               ELSE pc' = [pc EXCEPT ![w] = "t244"] /\ UNCHANGED << ret, message >>
    /\ UNCHANGED << task_vars, session_vars, _timer_active, spinning, published,
                    cb, all_unmatched, ticks, expiries >>
    /\ Track

\* A countdown that forgets to count
NoDecrement(n) == n

\* The new value line 239 stores
Decrement(n) == n - 1

\* lines 239-241 and the head of the next iteration: only timer threads write
\* timer_length, so the read-modify-write is one step; time.sleep(1) is a pause
T239(w) ==
    /\ pc[w] = "t239"
    /\ IF task_state \notin DOMAIN timer_length
       THEN /\ Die(w)
            /\ UNCHANGED << timer_length, ret, message >>
       ELSE /\ timer_length' = [timer_length EXCEPT ![task_state] = Decrement(@)]
            /\ loc' = [loc EXCEPT ![w].i = @ + 1]
            /\ IF loc[w].i + 1 < loc[w].loops
               THEN CallPublish(w, "t239")
               ELSE pc' = [pc EXCEPT ![w] = "t244"] /\ UNCHANGED << ret, message >>
    /\ UNCHANGED << task_state, session_vars, _timer_active, spinning, published,
                    cb, all_unmatched, ticks, expiries >>
    /\ Track

\* lines 243-244, under _timer_lock
T244(w) ==
    /\ pc[w] = "t244"
    /\ _timer_active' = FALSE
    /\ pc' = [pc EXCEPT ![w] = "t247"]
    /\ UNCHANGED << task_vars, session_vars, spinning, ret, message, loc, published,
                    cb, all_unmatched, ticks, expiries >>
    /\ Track

\* lines 247-248: the state that follows the Machine's state in states.keys()
T247(w) ==
    /\ pc[w] = "t247"
    /\ IF StateIndex(task_state) + 1 > Len(Steps)
       THEN Die(w)
       ELSE /\ loc' = [loc EXCEPT ![w].next_state = Steps[StateIndex(task_state) + 1]]
            /\ pc' = [pc EXCEPT ![w] = "t251"]
    /\ UNCHANGED << task_vars, session_vars, _timer_active, spinning, ret, message, published,
                    cb, all_unmatched, ticks, expiries >>
    /\ Track

\* line 251: to_<next_state>() moves the Machine there from any state
T251(w) ==
    /\ pc[w] = "t251"
    /\ task_state' = loc[w].next_state
    /\ pc' = [pc EXCEPT ![w] = "t254"]
    /\ expiries' = expiries + 1
    /\ UNCHANGED << timer_length, session_vars, _timer_active, spinning, ret, message, loc,
                    published, cb, all_unmatched, ticks >>
    /\ Track

\* line 254
T254(w) ==
    /\ pc[w] = "t254"
    /\ _previous_step' = _current_step
    /\ pc' = [pc EXCEPT ![w] = "t255"]
    /\ UNCHANGED << task_vars, _current_step, _current_activity, _next_activity,
                    _timer_active, spinning, ret, message, loc, published,
                    cb, all_unmatched, ticks, expiries >>
    /\ Track

\* lines 255 and 257
T255(w) ==
    /\ pc[w] = "t255"
    /\ _current_step' = task_state
    /\ CallPublish(w, "done")
    /\ loc' = [loc EXCEPT ![w] = NoLocals]
    /\ UNCHANGED << task_vars, _previous_step, _current_activity, _next_activity,
                    _timer_active, spinning, published,
                    cb, all_unmatched, ticks, expiries >>
    /\ Track

\* ------------------------------------------------------------ specification
Next ==
    \/ ReceiveEmpty
    \/ \E label_vec \in LabelVecs : ReceiveUnmatched(label_vec)
    \/ \E label_vec \in LabelVecs : ReceiveMatched(label_vec)
    \/ L141
    \/ L146
    \/ L150
    \/ L151
    \/ L160
    \/ L163
    \/ \E th \in Threads : P200(th)
    \/ \E th \in Threads : P202(th)
    \/ \E th \in Threads : P207(th)
    \/ \E th \in Threads : P212(th)
    \/ \E th \in Threads : P217(th)
    \/ \E th \in Threads : P220(th)
    \/ \E th \in Threads : P221(th)
    \/ \E th \in Threads : P224(th)
    \/ \E w \in Workers : T234(w)
    \/ \E w \in Workers : T239(w)
    \/ \E w \in Workers : T244(w)
    \/ \E w \in Workers : T247(w)
    \/ \E w \in Workers : T251(w)
    \/ \E w \in Workers : T254(w)
    \/ \E w \in Workers : T255(w)

Spec == Init /\ [][Next]_vars

TypeOK ==
    /\ task_state \in StepNames
    /\ _current_step \in StepNames
    /\ _previous_step \in StepNames \cup {None}
    /\ _timer_active \in BOOLEAN

\* ------------------------------------------------------------------ properties
\* A step taken by the executor thread (listener_callback and what it calls)
ByListener ==
    \/ pc'[Listener] # pc[Listener]
    \/ loc'[Listener] # loc[Listener]
    \/ spinning' # spinning

LiveWorkers == {w \in Workers : Alive(w)}

InCall == pc[Listener] # "idle"

\* The countdown loop of worker w is over (it is at line 243 or beyond)
PastLoop(w) == pc[w] \in {"t244", "t247", "t251", "t254", "t255", "done"}
                  \/ (InPublish(pc[w]) /\ ret[w] = "done")

NextInSequence(s) == Steps[StateIndex(s) + 1]

\* C1: a listener_callback call that begins while _timer_active is true never
\* changes _current_step, whatever its label_vec and however its steps
\* interleave with the timer thread (the flag may be cleared under it).
C1_TimerBlocksAdvance ==
    [][(ByListener /\ cb'.timer_at_entry) => _current_step' = _current_step]_vars

\* A matched call that began under an active timer, found the flag cleared at
\* line 141, tried its trigger and finished
C1_Witness ==
    /\ cb.timer_at_entry
    /\ cb.outcome = "MachineError"
    /\ pc[Listener] = "idle"
    /\ _current_activity = "making tea"

\* C2: listener_callback and task_timer_thread are never both at code that
\* reads or writes the session fields.
Touches(p) == p \notin {"idle", "unborn", "done", "dead", "p224"}

C2_MutualExclusion ==
    ~ (Touches(pc[Listener]) /\ \E w \in Workers : Touches(pc[w]))

\* C3: once the countdown of the timed step is over, expiry puts _current_step
\* on the step that follows it in the step order with _timer_active false, and
\* _timer_active is never false while _current_step is still the timed step
\* whose countdown has finished.
C3_ExpiryAdvances ==
    \A w \in Workers :
       /\ (pc[w] = "done" \/ (InPublish(pc[w]) /\ ret[w] = "done"))
             => (_current_step = NextInSequence(TimedState) /\ ~ _timer_active)
       /\ (PastLoop(w) /\ _current_step = TimedState) => _timer_active

\* C4: at most one task_timer_thread is alive at any time.
C4_AtMostOneWorker == Cardinality(LiveWorkers) <= 1

\* A matched call ran lines 146-160 while the worker was between clearing the
\* flag and advancing, and returned without starting another thread
C4_Witness ==
    /\ \E w \in Workers : pc[w] = "t247"
    /\ cb.outcome = "MachineError"
    /\ ~ cb.timer_at_entry
    /\ ~ cb.started
    /\ pc[Listener] = "idle"

\* C5: _timer_active is true exactly when a task_timer_thread is running, up to
\* the end of its expiry work.
C5_FlagIffWorker == _timer_active <=> (LiveWorkers # {})

\* C6: snapshots come out in the order of the session states they show: a
\* message is never published after a message that was read entirely from a
\* later state of the session.
C6_SnapshotsInOrder == published.in_order

C8_UnmatchedOnlyRecords ==
    all_unmatched =>
       /\ _current_step = InitialState
       /\ task_state = InitialState
       /\ ~ _timer_active
       /\ \A w \in Workers : pc[w] = "unborn"
       /\ (cb.outcome = "unmatched" /\ ~ InCall) =>
             /\ _current_activity = cb.first
             /\ cb.pubs = 1
             /\ published.msg.current_activity = cb.first
             /\ published.msg.current_step = Humanize(InitialState)

C8_Witness ==
    /\ all_unmatched
    /\ cb.outcome = "unmatched"
    /\ ~ InCall
    /\ cb.first = "walking"
    /\ published.msg.current_activity = "walking"

\* The destination of the transition the matched activity's trigger has from
\* the step the call started in
C9_Destinations ==
    IF _current_activity \in DOMAIN _activity_action_dict
    THEN {Transitions[k].dest : k \in {j \in 1..Len(Transitions) :
              /\ Transitions[j].trigger = _activity_action_dict[_current_activity]
              /\ Transitions[j].source = cb.step_at_entry}}
    ELSE {}

\* C9: a call whose trigger has a transition from the current step, with no
\* timer active, sets _previous_step to the old _current_step and _current_step
\* to the transition's destination, and starts a timer iff the destination has
\* a timer_length: "opening bottle" takes the first step to the second without
\* a timer, "making tea" takes the second to the timed step and starts one.
C9_AdvanceOnTrigger ==
    cb.outcome = "advanced" =>
       /\ ~ cb.timer_at_entry
       /\ C9_Destinations # {}
       /\ (pc[Listener] \in PublishPCs \cup {"l160", "l163"} \/ (~ InCall /\ ~ cb.started))
             => /\ _previous_step = cb.step_at_entry
                /\ _current_step \in C9_Destinations
       /\ ~ InCall => (cb.started <=> (C9_Destinations \cap DOMAIN timer_length # {}))
       /\ (~ InCall /\ cb.step_at_entry = Steps[1] /\ _current_activity = "opening bottle")
             => (_current_step = Steps[2] /\ ~ _timer_active /\ LiveWorkers = {})
       /\ (~ InCall /\ cb.step_at_entry = Steps[2] /\ _current_activity = "making tea")
             => cb.started

C9_Witness ==
    /\ cb.outcome = "advanced"
    /\ ~ InCall
    /\ cb.started
    /\ _timer_active
    /\ _current_step = TimedState
    /\ _previous_step = Steps[2]

\* C10: a call whose trigger has no transition from the current step, with no
\* timer active, returns normally, has changed neither _current_step nor
\* _previous_step, and has published one message that shows the steps as they
\* were when the call began.
C10_NoSuchTransitionKeepsSteps ==
    (cb.outcome = "MachineError" /\ pc[Listener] = "l160") =>
       /\ spinning
       /\ cb.pubs = 1
       /\ published.by = Listener
       /\ published.msg.current_step = Humanize(cb.step_at_entry)
       /\ published.msg.previous_step =
             (IF cb.prev_at_entry = None THEN "N/A" ELSE cb.prev_at_entry)

\* C11: a label_vec without candidates does not end message processing: after
\* it the node still takes observations, with _current_activity and
\* _current_step as they were.
C11_EmptyVecHandled ==
    cb.outcome = "IndexError" =>
       /\ spinning
       /\ _current_step = cb.step_at_entry

\* C13: the task definition is what Task.__init__ set up; in particular the
\* timer_length of the timed step is the declared one at all times.
C13_DefinitionImmutable == timer_length = [s \in {TimedState} |-> TimerLength]

NoOutgoing(s) == \A k \in 1..Len(Transitions) : Transitions[k].source # s

\* C14: a message that shows a step without outgoing transition carries the
\* next_activity of the message published before it, which is a trigger (for
\* this task make_tea, the last one computed) and never None.
C14_StickyNextTrigger ==
    (\E s \in StepNames : NoOutgoing(s) /\ published.msg.current_step = Humanize(s)) =>
       /\ published.msg.next_activity = published.prev_next
       /\ published.msg.next_activity # None
       /\ published.msg.next_activity = Transitions[Len(Transitions)].trigger

C14_Witness ==
    /\ published.msg.current_step = Humanize(Steps[Len(Steps)])
    /\ NoOutgoing(Steps[Len(Steps)])
    /\ published.msg.next_activity = "make_tea"
    /\ published.prev_next = "make_tea"

\* A step of some thread inside publish_task_state_message
PublishStep ==
    \E th \in Threads : InPublish(pc[th]) /\ (pc'[th] # pc[th] \/ loc'[th] # loc[th])

\* C15: no step of publish_task_state_message changes a session field.
C15_PublishReadOnly ==
    [][PublishStep => UNCHANGED << session_vars, _timer_active, timer_length >>]_vars

\* C16: a published message has time_remaining_until_next_task = -1 exactly
\* when the step it shows is not the timed step, and a value between 0 and the
\* duration when it shows the timed step.
C16_TimerFieldMatchesStep ==
    LET m == published.msg
    IN  /\ (m.time_remaining_until_next_task = -1) <=> (m.current_step # Humanize(TimedState))
        /\ m.current_step = Humanize(TimedState)
              => m.time_remaining_until_next_task \in 0..TimerLength

\* C18: whenever a thread hands a message to the publisher, _current_step is the
\* Machine's state, and _previous_step, when set, differs from _current_step,
\* in the session and in the message.
C18_PublishedStepIsMachineState ==
    \A th \in Threads : pc[th] = "p224" =>
       /\ _current_step = task_state
       /\ _previous_step # None => _previous_step # _current_step
       /\ message[th].previous_step # "N/A"
             => Humanize(message[th].previous_step) # message[th].current_step

\* C19: every change of _current_step goes one position forward in Steps, and
\* the last step is never left.
C19_MonotoneProgress ==
    [][/\ _current_step' # _current_step
             => StateIndex(_current_step') = StateIndex(_current_step) + 1
       /\ _current_step = Steps[Len(Steps)] => _current_step' = _current_step]_vars

\* The task is at its last step and a later matched observation left it there
C19_Witness ==
    /\ _current_step = Steps[Len(Steps)]
    /\ _previous_step = TimedState
    /\ cb.step_at_entry = Steps[Len(Steps)]
    /\ cb.outcome = "MachineError"
    /\ ~ InCall

\* C20: only a call that has just moved the Machine into a state with
\* timer_length starts a timer thread; a call whose trigger raised MachineError
\* never does, also not in the timed step after the flag was cleared; so there
\* is one countdown and one advance per entry into the timed step.
C20_OneCountdownPerEntry ==
    /\ cb.started =>
          /\ cb.outcome = "advanced"
          /\ \E k \in 1..Len(Transitions) : /\ Transitions[k].source = cb.step_at_entry
                                            /\ Transitions[k].dest \in DOMAIN timer_length
    /\ cb.outcome = "MachineError" => (~ cb.started /\ pc[Listener] # "l163")
    /\ Cardinality({w \in Workers : pc[w] # "unborn"}) <= 1
    /\ expiries <= 1
    /\ Len(ticks) <= TimerLength

\* A matched call found the timed step with the flag already cleared, failed
\* its trigger, started nothing, and the one thread has since finished
C20_Witness ==
    /\ cb.outcome = "MachineError"
    /\ cb.step_at_entry = TimedState
    /\ ~ cb.timer_at_entry
    /\ ~ cb.started
    /\ ~ InCall
    /\ \E w \in Workers : pc[w] = "done"
    /\ expiries = 1

\* No timer thread ever ends in an exception: in particular line 248 never
\* raises IndexError, the timed step not being the last one
NoWorkerDies == \A w \in Workers : pc[w] # "dead"

\* ------------------------------------------------------------------ fairness
\* Any step of timer thread w
WorkerNext(w) ==
    \/ T234(w) \/ T239(w) \/ T244(w) \/ T247(w) \/ T251(w) \/ T254(w) \/ T255(w)
    \/ P200(w) \/ P202(w) \/ P207(w) \/ P212(w) \/ P217(w) \/ P220(w) \/ P221(w) \/ P224(w)

\* The label_vecs delivered under fairness: matched ones, unmatched ones and the
\* empty one, with one label outside the vocabulary. A second such label only
\* varies the string line 132 stores in _current_activity, which no branch of
\* the countdown reads.
FairVecs == {v \in LabelVecs : \A i \in 1..Len(v) : v[i] # "walking"}

FairNext ==
    \/ ReceiveEmpty
    \/ \E label_vec \in FairVecs : ReceiveUnmatched(label_vec)
    \/ \E label_vec \in FairVecs : ReceiveMatched(label_vec)
    \/ L141
    \/ L146
    \/ L150
    \/ L151
    \/ L160
    \/ L163
    \/ \E th \in Threads : P200(th)
    \/ \E th \in Threads : P202(th)
    \/ \E th \in Threads : P207(th)
    \/ \E th \in Threads : P212(th)
    \/ \E th \in Threads : P217(th)
    \/ \E th \in Threads : P220(th)
    \/ \E th \in Threads : P221(th)
    \/ \E th \in Threads : P224(th)
    \/ \E w \in Workers : T234(w)
    \/ \E w \in Workers : T239(w)
    \/ \E w \in Workers : T244(w)
    \/ \E w \in Workers : T247(w)
    \/ \E w \in Workers : T251(w)
    \/ \E w \in Workers : T254(w)
    \/ \E w \in Workers : T255(w)

\* The interpreter keeps scheduling a started thread (time.sleep returns, the
\* thread never waits on the listener); activity messages may stop at any time.
FairSpec == Init /\ [][FairNext]_vars /\ \A w \in Workers : WF_vars(WorkerNext(w))

\* C17: once a timer thread has been started for the timed step, eventually
\* _timer_active is false and _current_step is the step after the timed step,
\* whatever label_vecs arrive during the countdown.
C17_TimerRunsToExpiry ==
    (\E w \in Workers : pc[w] = "t234")
        ~> (/\ ~ _timer_active
            /\ \E k \in 1..(Len(Steps) - 1) : Steps[k] = TimedState /\ _current_step = Steps[k + 1])

\* The countdown has run to its end although a matched and an unmatched
\* observation were handled while it ran
C17_Witness ==
    /\ \E w \in Workers : pc[w] = "done"
    /\ ~ _timer_active
    /\ _current_step = NextInSequence(TimedState)
    /\ cb.timer_at_entry
    /\ cb.outcome \in {"timer_active", "unmatched"}
    /\ ~ InCall

====
